---- MODULE Spec2Model ----
(***************************************************************************)
(* Model of the chunked file-synchronisation protocol of gactions:         *)
(*   - the chunk planner (request.SDKStreamer),                            *)
(*   - the upload framer (sendFilesToServerJSON) and its HTTP goroutine,   *)
(*   - the download decoder and the reconciler (sendRequest),              *)
(*   - the response reader (readBodyWithTimeout, postprocessJSONResponse). *)
(* A path is a record [dir, stem, ext]: the directory segments, the base   *)
(* name without its extension, and the extension path.Ext returns.         *)
(* A content is a record [len, yaml, inline]: the byte length, whether the *)
(* bytes parse as YAML, and whether the YAML has an inlineCloudFunction    *)
(* key.  Byte lengths are scaled down; the arithmetic on them is the       *)
(* code's.                                                                 *)
(***************************************************************************)
EXTENDS Integers, Sequences, FiniteSets, TLC

\* ------------------------------------------------------------------ bounds
MaxLen == 1         \* largest byte length of a project file
MaxBudget == 4      \* largest chunkSize given to NewStreamer
MaxFiles == 3       \* largest number of files of a project (planner runs)
MaxRecords == 2     \* records the server sends in one response
MaxEntries == 1     \* entries in one record
MaxRequests == 4    \* Next calls made once HasNext is false are capped here

\* ------------------------------------------------------------------- paths
P(dir, stem, ext) == [dir |-> dir, stem |-> stem, ext |-> ext]

PManifest    == P(<<>>, "manifest", ".yaml")
PSettings    == P(<<"settings">>, "settings", ".yaml")
PIntentA     == P(<<"custom", "intents">>, "a", ".yaml")
PIntentB     == P(<<"custom", "intents">>, "b", ".yaml")
PIntentSet   == P(<<"custom", "intents">>, "settings", ".yaml")
PResManifest == P(<<"resources", "images">>, "manifest", ".yaml")
PPng         == P(<<"resources", "images">>, "a", ".png")
PMp3         == P(<<"resources", "audio">>, "b", ".mp3")
PXyz         == P(<<"resources", "audio">>, "c", ".xyz")
PWebhookYaml == P(<<"webhooks">>, "f", ".yaml")
PWebhookJs   == P(<<"webhooks", "f">>, "index", ".js")
PWebhookZip  == P(<<"webhooks">>, "f", ".zip")
PWebhookDir  == P(<<"webhooks">>, "f", "")
PStray       == P(<<"webhooks", "f">>, "notes", ".txt")
PWebhookDep  == P(<<"webhooks", "f", "node_modules">>, "dep", ".js")
PWebhookJs2  == P(<<"webhooks", "f2">>, "index", ".js")

\* The paths of the model in the order of their strings (sort.Strings).
LexOrder ==
    << PIntentA, PIntentB, PIntentSet, PManifest, PMp3, PXyz, PPng, PResManifest, PSettings,
       PWebhookDir, PWebhookYaml, PWebhookZip, PWebhookJs, PWebhookDep, PStray,
       PWebhookJs2 >>

LexRank(p) == CHOOSE k \in 1..Len(LexOrder) : LexOrder[k] = p

\* strings.HasPrefix(filename, path.Join(pre...)) on whole segments.
HasDirPrefix(p, pre) ==
    /\ Len(p.dir) >= Len(pre)
    /\ \A k \in 1..Len(pre) : p.dir[k] = pre[k]

IsWebhook(p) == HasDirPrefix(p, <<"webhooks">>)
IsWebhookDefinition(p) == IsWebhook(p) /\ p.ext = ".yaml"
IsVertical(p) == HasDirPrefix(p, <<"verticals">>) /\ p.ext = ".yaml"
IsManifest(p) == p.stem = "manifest" /\ p.ext = ".yaml"
IsSettings(p) == p.stem = "settings" /\ p.ext = ".yaml"
IsActions(p) == p.stem = "actions" /\ p.ext = ".yaml"
IsIntent(p) == HasDirPrefix(p, <<"custom", "intents">>) /\ p.ext = ".yaml"
IsGlobal(p) == HasDirPrefix(p, <<"custom", "global">>) /\ p.ext = ".yaml"
IsScene(p) == HasDirPrefix(p, <<"custom", "scenes">>) /\ p.ext = ".yaml"
IsType(p) == HasDirPrefix(p, <<"custom", "types">>) /\ p.ext = ".yaml"
IsPrompt(p) == HasDirPrefix(p, <<"custom", "prompts">>) /\ p.ext = ".yaml"
IsResourceBundle(p) ==
    HasDirPrefix(p, <<"resources", "strings">>) /\ p.ext = ".yaml"
IsAccountLinkingSecret(p) ==
    p.dir = <<"settings">> /\ p.stem = "accountLinkingSecret" /\ p.ext = ".yaml"

isConfigFile(p) ==
    \/ IsVertical(p) \/ IsManifest(p) \/ IsSettings(p) \/ IsActions(p)
    \/ IsIntent(p) \/ IsGlobal(p) \/ IsScene(p) \/ IsType(p)
    \/ IsWebhookDefinition(p) \/ IsResourceBundle(p) \/ IsPrompt(p)
    \/ IsAccountLinkingSecret(p)

\* studio.ConfigFiles: the sub-map of the config files.
ConfigFiles(fs) == [p \in {q \in DOMAIN fs : isConfigFile(q)} |-> fs[p]]

\* ----------------------------------------------------------------- helpers
Range(s) == {s[k] : k \in 1..Len(s)}

RECURSIVE SumOver(_, _)
SumOver(S, f) ==
    IF S = {} THEN 0
    ELSE LET x == CHOOSE y \in S : TRUE IN f[x] + SumOver(S \ {x}, f)

\* All orders in which a Go map of key set S can be iterated.
Orders(S) ==
    {s \in [1..Cardinality(S) -> S] : \A a, b \in 1..Cardinality(S) : a # b => s[a] # s[b]}

\* len(base64.StdEncoding.EncodeToString(v)) for len(v) = n.
B64Len(n) == 4 * ((n + 2) \div 3)

\* A file content.
Content(n, y, il) == [len |-> n, yaml |-> y, inline |-> il]

\* zipFiles: the archive of the members; every entry and the archive itself
\* carry a header (one scaled byte each).
zipFiles(fs) ==
    Content(1 + SumOver(DOMAIN fs, [p \in DOMAIN fs |-> fs[p].len + 1]), FALSE, FALSE)

\* strings.HasPrefix(s, pre) on the names of the model.
StrHasPrefix(s, pre) == s = pre \/ <<pre, s>> \in {<<"f", "f2">>}

\* strings.HasPrefix(k2, funcFolder) with funcFolder = "webhooks/" + name:
\* the comparison is made on the strings, so it ends inside the segment
\* that follows "webhooks/".
HasFuncFolderPrefix(c, name) ==
    /\ Len(c.dir) >= 1
    /\ c.dir[1] = "webhooks"
    /\ StrHasPrefix(IF Len(c.dir) >= 2 THEN c.dir[2] ELSE c.stem, name)

\* strings.Contains(k2, "node_modules") on the names of the model.
ContainsNodeModules(c) == "node_modules" \in Range(c.dir) \cup {c.stem}

\* addInlineWebhooks: the code files zipped for the definition k.
filesToZip(fs, k) ==
    {c \in DOMAIN fs :
        /\ IsWebhook(c) /\ ~IsWebhookDefinition(c)
        /\ HasFuncFolderPrefix(c, k.stem)
        /\ ~ContainsNodeModules(c)
        /\ c.ext \in {".js", ".json"}}

\* The webhook definitions of the project.
webhookYamls(fs) == {k \in DOMAIN fs : IsWebhookDefinition(k)}

\* addInlineWebhooks fails on a malformed definition and on an inline
\* function without code.
addInlineWebhooksFails(fs) ==
    \E k \in webhookYamls(fs) :
        \/ ~fs[k].yaml
        \/ fs[k].inline /\ filesToZip(fs, k) = {}

inlineZips(fs) == {k \in webhookYamls(fs) : fs[k].yaml /\ fs[k].inline}

\* studio.DataFiles when it succeeds: the non-bundle files under resources/
\* and one zip per inline webhook.
DataFiles(fs) ==
    LET res == {k \in DOMAIN fs : HasDirPrefix(k, <<"resources">>) /\ ~IsResourceBundle(k)}
        zips == {P(<<"webhooks">>, k.stem, ".zip") : k \in inlineZips(fs)}
    IN [p \in res \cup zips |->
          IF p \in zips
          THEN LET k == CHOOSE y \in inlineZips(fs) : y.stem = p.stem
               IN zipFiles([c \in filesToZip(fs, k) |-> fs[c]])
          ELSE fs[p]]

\* --------------------------------------------------------- planner state
VARIABLES
    files,            \* SDKStreamer.files: name -> content, both kinds merged
    sizes,            \* SDKStreamer.sizes: name -> estimated wire size
    configFilenames,  \* SDKStreamer.configFilenames
    dataFilenames,    \* SDKStreamer.dataFilenames
    i,                \* SDKStreamer.i, the config cursor
    j,                \* SDKStreamer.j, the data cursor
    chunkSize,        \* SDKStreamer.chunkSize, the budget
    cfgIn,            \* history: the configFiles argument of NewStreamer
    dataIn,           \* history: the dataFiles argument of NewStreamer
    emitted,          \* history: what the successful Next calls returned
    lastErr           \* history: the error of the last failed Next, or NoErr

sv == <<files, sizes, configFilenames, dataFilenames, i, j, chunkSize,
        cfgIn, dataIn, emitted, lastErr>>

NoErr == [type |-> "none"]

\* moveToFront(a, ps): swap a[k] with a[ps[k]] for k = 0 .. len(ps)-1.
RECURSIVE moveToFrontFrom(_, _, _)
moveToFrontFrom(a, ps, k) ==
    IF k > Len(ps) THEN a
    ELSE moveToFrontFrom([a EXCEPT ![k] = a[ps[k]], ![ps[k]] = a[k]], ps, k + 1)

\* A moveToFront that leaves the slice as it is.
moveToFrontNowhere(a, ps) == a

moveToFront(a, ps) == moveToFrontFrom(a, ps, 1)

\* The ascending list of the indexes k of a with T(a[k]).
RECURSIVE posOf(_, _, _)
posOf(a, k, front) ==
    IF k > Len(a) THEN <<>>
    ELSE IF a[k] \in front THEN <<k>> \o posOf(a, k + 1, front)
    ELSE posOf(a, k + 1, front)

\* sort.Slice with less = sizes[x] < sizes[y]: some arrangement of the
\* elements in non-decreasing size (the sort is not stable).
SortedBySize(S, sz) ==
    {s \in Orders(S) : \A a \in 1..Len(s) - 1 : sz[s[a]] <= sz[s[a + 1]]}

\* sortConfigFiles: settings and manifest files first, the rest by size.
sortConfigFiles(cfgnames, sz) ==
    LET front == {p \in Range(cfgnames) : IsSettings(p) \/ IsManifest(p)}
        pos   == posOf(cfgnames, 1, front)
        moved == moveToFront(cfgnames, pos)
        head  == SubSeq(moved, 1, Len(pos))
        rest  == {moved[k] : k \in Len(pos) + 1..Len(moved)}
    IN {head \o t : t \in SortedBySize(rest, sz)}

\* NewStreamer: the merged maps and the estimates.
mergedFiles(cfg, data) ==
    [p \in DOMAIN cfg \cup DOMAIN data |-> IF p \in DOMAIN data THEN data[p] ELSE cfg[p]]

estimates(cfg, data) ==
    [p \in DOMAIN cfg \cup DOMAIN data |->
        IF p \in DOMAIN data THEN B64Len(data[p].len) ELSE cfg[p].len]

\* NewStreamer: the streamers it can return; the iteration order of the two
\* maps and the order sort.Slice leaves equal sizes in are not determined.
NewStreamer(cfg, data, budget) ==
    {[files |-> mergedFiles(cfg, data),
      sizes |-> estimates(cfg, data),
      configFilenames |-> c,
      dataFilenames |-> d,
      i |-> 0,
      j |-> 0,
      chunkSize |-> budget] :
        c \in UNION {sortConfigFiles(o, estimates(cfg, data)) : o \in Orders(DOMAIN cfg)},
        d \in SortedBySize(DOMAIN data, estimates(cfg, data))}

\* HasNext.
HasNext == (i + j) < Cardinality(DOMAIN files)

\* nextChunk without the test that stops before the file that overflows.
RECURSIVE nextChunkLenNoBreak(_, _, _, _)
nextChunkLenNoBreak(a, next, n, curSize) ==
    IF curSize < chunkSize /\ n + next < Len(a)
    THEN nextChunkLenNoBreak(a, next, n + 1, curSize + sizes[a[next + n + 1]])
    ELSE n

\* nextChunk: the number of names taken from a, starting after next.
RECURSIVE nextChunkLen(_, _, _, _)
nextChunkLen(a, next, n, curSize) ==
    IF curSize < chunkSize /\ n + next < Len(a)
    THEN LET name == a[next + n + 1]
             cs   == curSize + sizes[name]
         IN IF cs > chunkSize THEN n ELSE nextChunkLen(a, next, n + 1, cs)
    ELSE n

\* nextChunk: the key set of the chunk map.
nextChunk(a, next) == {a[k] : k \in next + 1..next + nextChunkLen(a, next, 0, 0)}

\* addConfigFiles: the wire key of a config file, "" when no case matches.
configKey(p) ==
    IF IsAccountLinkingSecret(p) THEN "accountLinkingSecret"
    ELSE IF IsManifest(p) THEN "manifest"
    ELSE IF IsSettings(p) THEN "settings"
    ELSE IF IsActions(p) THEN "actions"
    ELSE IF IsWebhookDefinition(p) THEN "webhook"
    ELSE IF IsIntent(p) THEN "intent"
    ELSE IF IsGlobal(p) THEN "globalIntentEvent"
    ELSE IF IsType(p) THEN "type"
    ELSE IF IsPrompt(p) THEN "staticPrompt"
    ELSE IF IsScene(p) THEN "scene"
    ELSE IF IsVertical(p) THEN "verticalSettings"
    ELSE IF IsResourceBundle(p) THEN "resourceBundle"
    ELSE ""

\* The keys of a chunk in the order of sort.Strings.
RECURSIVE sortedKeys(_)
sortedKeys(S) ==
    IF S = {} THEN <<>>
    ELSE LET m == CHOOSE x \in S : \A y \in S : LexRank(x) <= LexRank(y)
         IN <<m>> \o sortedKeys(S \ {m})

\* addConfigFiles stops at the first key, in sorted order, that does not
\* parse or has no wire key.
badConfig(chunk) == {p \in chunk : ~files[p].yaml \/ configKey(p) = ""}

firstBadConfig(chunk) ==
    CHOOSE x \in badConfig(chunk) : \A y \in badConfig(chunk) : LexRank(x) <= LexRank(y)

\* mime.TypeByExtension restricted to the allow-list of addDataFiles, with
\* the two special extensions.
contentType(p) ==
    IF p.ext = ".zip" THEN "application/zip;zip_type=cloud_function"
    ELSE IF p.ext = ".flr" THEN "x-world/x-vrml"
    ELSE IF p.ext = ".mp3" THEN "audio/mpeg"
    ELSE IF p.ext \in {".jpg", ".jpeg"} THEN "image/jpeg"
    ELSE IF p.ext = ".png" THEN "image/png"
    ELSE IF p.ext = ".wav" THEN "audio/x-wav"
    ELSE ""

\* makeRequest(): the base request, before any batch is added.
baseRequest == [base |-> "parent", hasFiles |-> FALSE, kind |-> "none",
                configFiles |-> <<>>, dataFiles |-> {}]

\* addConfigFiles(req, chunk, root) when it succeeds.
addConfigFiles(req, chunk) ==
    [req EXCEPT !.hasFiles = TRUE, !.kind = "config",
                !.configFiles = [k \in 1..Cardinality(chunk) |->
                    [filePath |-> sortedKeys(chunk)[k], key |-> configKey(sortedKeys(chunk)[k])]]]

\* addDataFiles(req, chunk, root): it never fails; files of an unsupported
\* type are left out, and "files" is set only when something was added.
addDataFiles(req, chunk) ==
    LET dfs == {[filePath |-> p, contentType |-> contentType(p)] :
                    p \in {q \in chunk : contentType(q) # ""}}
    IN IF dfs = {} THEN req
       ELSE [req EXCEPT !.hasFiles = TRUE, !.kind = "data", !.dataFiles = dfs]

\* nextConfigFiles that takes the file at the cursor when nothing fits.
nextConfigFilesForced(req) ==
    LET c0    == nextChunk(configFilenames, i)
        chunk == IF c0 = {} THEN {configFilenames[i + 1]} ELSE c0
    IN IF badConfig(chunk) # {}
       THEN [ok |-> FALSE,
             err |-> [type |-> IF ~files[firstBadConfig(chunk)].yaml THEN "syntax" ELSE "unknown",
                      file |-> firstBadConfig(chunk)]]
       ELSE [ok |-> TRUE, req |-> addConfigFiles(req, chunk), chunk |-> chunk,
             ni |-> i + Cardinality(chunk), nj |-> j]

\* nextConfigFiles.
nextConfigFiles(req) ==
    LET chunk == nextChunk(configFilenames, i)
    IN IF Cardinality(chunk) = 0
       THEN [ok |-> FALSE, err |-> [type |-> "size", file |-> configFilenames[i + 1]]]
       ELSE IF badConfig(chunk) # {}
       THEN [ok |-> FALSE,
             err |-> [type |-> IF ~files[firstBadConfig(chunk)].yaml THEN "syntax" ELSE "unknown",
                      file |-> firstBadConfig(chunk)]]
       ELSE [ok |-> TRUE, req |-> addConfigFiles(req, chunk), chunk |-> chunk,
             ni |-> i + Cardinality(chunk), nj |-> j]

\* A nextDataFiles without the test for an empty chunk.
nextDataFilesAllowEmpty(req) ==
    LET chunk == nextChunk(dataFilenames, j)
    IN [ok |-> TRUE, req |-> addDataFiles(req, chunk), chunk |-> chunk,
        ni |-> i, nj |-> j + Cardinality(chunk)]

\* nextDataFiles.
nextDataFiles(req) ==
    LET chunk == nextChunk(dataFilenames, j)
    IN IF Cardinality(chunk) = 0
       THEN [ok |-> FALSE, err |-> [type |-> "size", file |-> dataFilenames[j + 1]]]
       ELSE [ok |-> TRUE, req |-> addDataFiles(req, chunk), chunk |-> chunk,
             ni |-> i, nj |-> j + Cardinality(chunk)]

\* A Next that serves the data list before the config list.
NextCallDataFirst ==
    IF j < Len(dataFilenames) THEN nextDataFiles(baseRequest)
    ELSE IF i < Len(configFilenames) THEN nextConfigFiles(baseRequest)
    ELSE [ok |-> TRUE, req |-> baseRequest, chunk |-> {}, ni |-> i, nj |-> j]

\* SDKStreamer.Next: the outcome of one call in the current state.
NextCall ==
    IF i < Len(configFilenames) THEN nextConfigFiles(baseRequest)
    ELSE IF j < Len(dataFilenames) THEN nextDataFiles(baseRequest)
    ELSE [ok |-> TRUE, req |-> baseRequest, chunk |-> {}, ni |-> i, nj |-> j]

\* A Next that has moved its cursor past the first file when it fails.
StreamerNextSkipsOnError ==
    LET r == NextCall
    IN IF r.ok
       THEN /\ i' = r.ni
            /\ j' = r.nj
            /\ emitted' = Append(emitted, [req |-> r.req, chunk |-> r.chunk,
                                           inLoop |-> HasNext, at |-> <<i, j>>])
            /\ lastErr' = NoErr
       ELSE /\ lastErr' = r.err
            /\ i' = IF i < Len(configFilenames) THEN i + 1 ELSE i
            /\ j' = IF i < Len(configFilenames) THEN j ELSE j + 1
            /\ UNCHANGED emitted

\* The effect of one Next call on the planner and on its history.
StreamerNext ==
    LET r == NextCall
    IN IF r.ok
       THEN /\ i' = r.ni
            /\ j' = r.nj
            /\ emitted' = Append(emitted, [req |-> r.req, chunk |-> r.chunk,
                                           inLoop |-> HasNext, at |-> <<i, j>>])
            /\ lastErr' = NoErr
       ELSE /\ lastErr' = r.err
            /\ UNCHANGED <<i, j, emitted>>

\* ---------------------------------------------------------- upload state
VARIABLES
    proj,        \* the project tree p.Files() reads
    fpc,         \* where the caller is in WriteDraftJSON / sendFilesToServerJSON
    exitPath,    \* history: the return statement sendFilesToServerJSON took
    ferr,        \* the error sendFilesToServerJSON returned
    closeCount,  \* history: the number of w.Close() calls
    pending,     \* the bytes of the Write in progress on the pipe
    rclosed,     \* the read end of the pipe was closed
    received,    \* history: what the reader of the pipe has read
    eofSeen,     \* the reader has read end-of-stream
    errCh,       \* the buffered error channel (capacity 1)
    hpc,         \* where the HTTP goroutine is
    pump,        \* the transport reading the request body
    outcome      \* what the caller returned

uv == <<proj, fpc, exitPath, ferr, closeCount, pending, rclosed, received,
        eofSeen, errCh, hpc, pump, outcome>>

None == [tok |-> "none"]
Tok(t) == [tok |-> t]
\* json.Encoder.Encode(req): the JSON of req followed by a newline, in one
\* Write.
Encode(req) == [tok |-> "json", req |-> req, nl |-> TRUE]

\* The upload variables when no upload runs.
UploadIdle ==
    /\ proj = <<>>
    /\ fpc = "idle"
    /\ exitPath = "none"
    /\ ferr = "nil"
    /\ closeCount = 0
    /\ pending = None
    /\ rclosed = FALSE
    /\ received = <<>>
    /\ eofSeen = FALSE
    /\ errCh = <<>>
    /\ hpc = "idle"
    /\ pump = "none"
    /\ outcome = "none"

\* --------------------------------------------------------- pull state
VARIABLES local, disk, force, clean, ppc, nrec, cur, seen, confirmed, sres,
          extra, todo, flagged, reaped, pres, deviations, skipped

pv == <<local, disk, force, clean, ppc, nrec, cur, seen, confirmed, sres,
        extra, todo, flagged, reaped, pres, deviations, skipped>>

\* No pull is in progress.
PullIdle ==
    /\ local = {}
    /\ disk = <<>>
    /\ force = FALSE
    /\ clean = FALSE
    /\ ppc = "idle"
    /\ nrec = 0
    /\ cur = <<>>
    /\ seen = {}
    /\ confirmed = {}
    /\ sres = "none"
    /\ extra = {}
    /\ todo = {}
    /\ flagged = {}
    /\ reaped = {}
    /\ pres = "none"
    /\ deviations = {}
    /\ skipped = {}

\* ------------------------------------------------------ response state
VARIABLES
    bodyIn,      \* history: the bytes of the response body and how it ends
    status,      \* resp.StatusCode
    sync,        \* postprocessJSONResponse is called by the receiver itself
    bleft,       \* the bytes body.Read has not returned yet
    delivered,   \* history: the bytes body.Read has returned
    rd,          \* the result (n, byte, err) of the last body.Read
    jsPtr,       \* jsonString: the bytes its data pointer refers to
    jsLen,       \* jsonString: its length word
    gpc,         \* where the reading goroutine is
    rch,         \* errCh of readBodyWithTimeout (capacity 1)
    timer,       \* time.After(timeout)
    eofFirst,    \* history: the goroutine had sent when the timer fired
    rret,        \* what readBodyWithTimeout returned
    qpc,         \* where postprocessJSONResponse is
    pch,         \* the errCh given to postprocessJSONResponse (capacity 1)
    nsent,       \* history: the number of sends completed on pch
    cpc,         \* where the receiver of pch is
    cres         \* what the receiver got

rv == <<bodyIn, status, sync, bleft, delivered, rd, jsPtr, jsLen, gpc, rch, timer,
        eofFirst, rret, qpc, pch, nsent, cpc, cres>>

NoRead == [n |-> 0, byte |-> "", err |-> "nil"]
NoRet == [via |-> "none", body |-> <<>>, err |-> "nil"]

\* No response is being processed.
ResponseIdle ==
    /\ bodyIn = [data |-> <<>>, end |-> "eof", together |-> FALSE]
    /\ status = 0
    /\ sync = FALSE
    /\ bleft = <<>>
    /\ delivered = <<>>
    /\ rd = NoRead
    /\ jsPtr = <<>>
    /\ jsLen = 0
    /\ gpc = "idle"
    /\ rch = <<>>
    /\ timer = "idle"
    /\ eofFirst = FALSE
    /\ rret = NoRet
    /\ qpc = "idle"
    /\ pch = <<>>
    /\ nsent = 0
    /\ cpc = "idle"
    /\ cres = "none"

\* No streamer has been built.
PlannerIdle ==
    /\ files = <<>>
    /\ sizes = <<>>
    /\ configFilenames = <<>>
    /\ dataFilenames = <<>>
    /\ i = 0
    /\ j = 0
    /\ chunkSize = 0
    /\ cfgIn = <<>>
    /\ dataIn = <<>>
    /\ emitted = <<>>
    /\ lastErr = NoErr

vars == <<sv, uv, pv, rv>>

\* ------------------------------------------------------- project inputs
\* The contents a file at path p can have.
ContentsOf(p) ==
    IF p = PIntentA THEN {Content(n, y, FALSE) : n \in 0..MaxLen, y \in BOOLEAN}
    ELSE IF p = PWebhookYaml THEN {Content(1, TRUE, il) : il \in BOOLEAN}
    ELSE IF p = PIntentSet THEN {Content(1, TRUE, FALSE)}
    ELSE {Content(n, p.ext = ".yaml", FALSE) : n \in 0..MaxLen}

\* The project trees over the paths U with at most n files.
Projects(U, n) ==
    UNION {[S -> UNION {ContentsOf(p) : p \in S}] : S \in {T \in SUBSET U : Cardinality(T) <= n}}

WellFormed(fs) == \A p \in DOMAIN fs : fs[p] \in ContentsOf(p)

PlannerPaths ==
    {PManifest, PSettings, PIntentA, PIntentB, PIntentSet, PResManifest, PPng, PMp3,
     PXyz}

\* ------------------------------------------------------ planner behaviour
\* A planner built, as sendFilesToServerJSON builds it, from the config and
\* data files of a project tree.
InitPlanner ==
    /\ \E fs \in Projects(PlannerPaths, MaxFiles) :
          /\ WellFormed(fs)
          /\ cfgIn = ConfigFiles(fs)
          /\ dataIn = DataFiles(fs)
          /\ \E budget \in 1..MaxBudget :
               \E st \in NewStreamer(ConfigFiles(fs), DataFiles(fs), budget) :
                  /\ files = st.files
                  /\ sizes = st.sizes
                  /\ configFilenames = st.configFilenames
                  /\ dataFilenames = st.dataFilenames
                  /\ i = st.i
                  /\ j = st.j
                  /\ chunkSize = st.chunkSize
    /\ emitted = <<>>
    /\ lastErr = NoErr
    /\ UploadIdle
    /\ PullIdle
    /\ ResponseIdle

\* One call of Next: inside the loop `for HasNext() { Next() }`, or after it.
CallNext ==
    /\ HasNext \/ Len(emitted) < MaxRequests
    /\ StreamerNext
    /\ UNCHANGED <<files, sizes, configFilenames, dataFilenames, chunkSize, cfgIn, dataIn>>
    /\ UNCHANGED <<uv, pv, rv>>

NextPlanner == CallNext

Spec == InitPlanner /\ [][NextPlanner]_vars

\* ------------------------------------------------------ upload behaviour
UploadPaths ==
    {PManifest, PSettings, PIntentA, PPng, PWebhookYaml, PWebhookJs, PWebhookDep,
     PWebhookJs2}

\* A check that only looks for an empty map.
checkFailsWhenEmpty(cfg) == DOMAIN cfg = {}

\* check(cfgs) returns an error.
checkFails(cfg) ==
    \/ DOMAIN cfg = {}
    \/ PSettings \notin DOMAIN cfg
    \/ PManifest \notin DOMAIN cfg

\* WriteDraftJSON after io.Pipe() and `go func()`: the caller is about to
\* call sendFilesToServerJSON, the goroutine is about to build the request.
InitUpload ==
    /\ \E fs \in Projects(UploadPaths, MaxFiles) : WellFormed(fs) /\ proj = fs
    /\ fpc = "files"
    /\ exitPath = "none"
    /\ ferr = "nil"
    /\ closeCount = 0
    /\ pending = None
    /\ rclosed = FALSE
    /\ received = <<>>
    /\ eofSeen = FALSE
    /\ errCh = <<>>
    /\ hpc = "newreq"
    /\ pump = "none"
    /\ outcome = "none"
    /\ PlannerIdle
    /\ PullIdle
    /\ ResponseIdle

\* A deferred function that closes w only when no error is returned.
deferCloseOnSuccess(n, err) == IF err = "nil" THEN n + 1 ELSE n

\* The deferred function of sendFilesToServerJSON closes w whatever err is.
deferClose(n, err) == n + 1

\* A return statement of sendFilesToServerJSON, with its deferred function,
\* and what WriteDraftJSON does with the result.
Return(path, err) ==
    /\ exitPath' = path
    /\ ferr' = err
    /\ closeCount' = deferClose(closeCount, err)
    /\ fpc' = IF err = "nil" THEN "wait" ELSE "done"
    /\ outcome' = IF err = "nil" THEN outcome ELSE "err"

\* A Write on the pipe has returned: without error once the reader has
\* taken the bytes, with an error once the read end is closed.
WriteOk == pending = None
WriteFailed == pending # None /\ rclosed

\* files, err := p.Files()
F_Files ==
    /\ UNCHANGED <<pv, rv>>
    /\ fpc = "files"
    /\ \/ Return("files", "err")
       \/ fpc' = "data" /\ UNCHANGED <<exitPath, ferr, closeCount, outcome>>
    /\ UNCHANGED <<sv, proj, pending, rclosed, received, eofSeen, errCh, hpc, pump>>

\* dataFiles, err := studio.DataFiles(p)
F_DataFiles ==
    /\ UNCHANGED <<pv, rv>>
    /\ fpc = "data"
    /\ \/ Return("data", "err")
       \/ /\ addInlineWebhooksFails(proj)
          /\ Return("data", "err")
       \/ /\ ~addInlineWebhooksFails(proj)
          /\ fpc' = "check"
          /\ UNCHANGED <<exitPath, ferr, closeCount, outcome>>
    /\ UNCHANGED <<sv, proj, pending, rclosed, received, eofSeen, errCh, hpc, pump>>

\* check(configFiles), then w.Write("[") is started.
F_Check ==
    /\ UNCHANGED <<pv, rv>>
    /\ fpc = "check"
    /\ IF checkFails(ConfigFiles(proj))
       THEN Return("check", "err") /\ UNCHANGED pending
       ELSE /\ fpc' = "w_open"
            /\ pending' = Tok("[")
            /\ UNCHANGED <<exitPath, ferr, closeCount, outcome>>
    /\ UNCHANGED <<sv, proj, rclosed, received, eofSeen, errCh, hpc, pump>>

\* w.Write("[") has returned; on success the streamer is built.
F_Open ==
    /\ UNCHANGED <<pv, rv>>
    /\ fpc = "w_open"
    /\ \/ /\ WriteFailed
          /\ pending' = None
          /\ Return("open", "err")
          /\ UNCHANGED sv
       \/ /\ WriteOk
          /\ \E budget \in 1..MaxBudget :
               \E st \in NewStreamer(ConfigFiles(proj), DataFiles(proj), budget) :
                  /\ files' = st.files
                  /\ sizes' = st.sizes
                  /\ configFilenames' = st.configFilenames
                  /\ dataFilenames' = st.dataFilenames
                  /\ i' = st.i
                  /\ j' = st.j
                  /\ chunkSize' = st.chunkSize
          /\ cfgIn' = ConfigFiles(proj)
          /\ dataIn' = DataFiles(proj)
          /\ fpc' = "loop"
          /\ UNCHANGED <<emitted, lastErr, pending, exitPath, ferr, closeCount, outcome>>
    /\ UNCHANGED <<proj, rclosed, received, eofSeen, errCh, hpc, pump>>

\* The loop with the error of Next logged and not returned, as the write
\* errors are.
F_LoopDropsNextError ==
    /\ UNCHANGED <<pv, rv>>
    /\ fpc = "loop"
    /\ IF HasNext
       THEN /\ StreamerNext
            /\ IF NextCall.ok
               THEN /\ fpc' = "w_json"
                    /\ pending' = Encode(NextCall.req)
                    /\ UNCHANGED <<exitPath, ferr, closeCount, outcome>>
               ELSE Return("next", "nil") /\ UNCHANGED pending
       ELSE /\ fpc' = "w_close"
            /\ pending' = Tok("]")
            /\ UNCHANGED <<i, j, emitted, lastErr, exitPath, ferr, closeCount, outcome>>
    /\ UNCHANGED <<files, sizes, configFilenames, dataFilenames, chunkSize, cfgIn, dataIn>>
    /\ UNCHANGED <<proj, rclosed, received, eofSeen, errCh, hpc, pump>>

\* The test of `for streamer.HasNext()`: Next and the start of Encode, or
\* the start of w.Write("]").
F_Loop ==
    /\ UNCHANGED <<pv, rv>>
    /\ fpc = "loop"
    /\ IF HasNext
       THEN /\ StreamerNext
            /\ IF NextCall.ok
               THEN /\ fpc' = "w_json"
                    /\ pending' = Encode(NextCall.req)
                    /\ UNCHANGED <<exitPath, ferr, closeCount, outcome>>
               ELSE Return("next", "err") /\ UNCHANGED pending
       ELSE /\ fpc' = "w_close"
            /\ pending' = Tok("]")
            /\ UNCHANGED <<i, j, emitted, lastErr, exitPath, ferr, closeCount, outcome>>
    /\ UNCHANGED <<files, sizes, configFilenames, dataFilenames, chunkSize, cfgIn, dataIn>>
    /\ UNCHANGED <<proj, rclosed, received, eofSeen, errCh, hpc, pump>>

\* A separator written after every chunk.
needCommaAlways == TRUE

\* `if streamer.HasNext()` after Encode: a separator is written.
needComma == HasNext

\* encoder.Encode(req) has returned.
F_Encoded ==
    /\ UNCHANGED <<pv, rv>>
    /\ fpc = "w_json"
    /\ \/ /\ WriteFailed
          /\ pending' = None
          /\ Return("encode", "nil")
       \/ /\ WriteOk
          /\ IF needComma
             THEN fpc' = "w_comma" /\ pending' = Tok(",")
             ELSE fpc' = "loop" /\ UNCHANGED pending
          /\ UNCHANGED <<exitPath, ferr, closeCount, outcome>>
    /\ UNCHANGED <<sv, proj, rclosed, received, eofSeen, errCh, hpc, pump>>

\* w.Write(",") has returned.
F_Comma ==
    /\ UNCHANGED <<pv, rv>>
    /\ fpc = "w_comma"
    /\ \/ /\ WriteFailed
          /\ pending' = None
          /\ Return("comma", "nil")
       \/ /\ WriteOk
          /\ fpc' = "loop"
          /\ UNCHANGED <<pending, exitPath, ferr, closeCount, outcome>>
    /\ UNCHANGED <<sv, proj, rclosed, received, eofSeen, errCh, hpc, pump>>

\* w.Write("]") has returned.
F_Bracket ==
    /\ UNCHANGED <<pv, rv>>
    /\ fpc = "w_close"
    /\ \/ /\ WriteFailed
          /\ pending' = None
          /\ Return("bracket", "nil")
       \/ /\ WriteOk
          /\ Return("ok", "nil")
          /\ UNCHANGED pending
    /\ UNCHANGED <<sv, proj, rclosed, received, eofSeen, errCh, hpc, pump>>

\* err = <-errCh in WriteDraftJSON.
F_Wait ==
    /\ UNCHANGED <<pv, rv>>
    /\ fpc = "wait"
    /\ errCh # <<>>
    /\ outcome' = Head(errCh)
    /\ errCh' = Tail(errCh)
    /\ fpc' = "done"
    /\ UNCHANGED <<sv, proj, exitPath, ferr, closeCount, pending, rclosed, received,
                   eofSeen, hpc, pump>>

\* http.NewRequest fails: the goroutine reports the error and returns.
H_NewRequestFails ==
    /\ UNCHANGED <<pv, rv>>
    /\ hpc = "newreq"
    /\ errCh' = Append(errCh, "err")
    /\ hpc' = "exit"
    /\ UNCHANGED <<sv, proj, fpc, exitPath, ferr, closeCount, pending, rclosed, received,
                   eofSeen, pump, outcome>>

\* http.NewRequest succeeds and client.Do starts: the transport owns the
\* request body from now on.
H_Do ==
    /\ UNCHANGED <<pv, rv>>
    /\ hpc = "newreq"
    /\ hpc' = "do"
    /\ pump' = "reading"
    /\ UNCHANGED <<sv, proj, fpc, exitPath, ferr, closeCount, pending, rclosed, received,
                   eofSeen, errCh, outcome>>

\* The transport reads the bytes of the Write in progress.
T_Read ==
    /\ UNCHANGED <<pv, rv>>
    /\ pump = "reading"
    /\ pending # None
    /\ received' = Append(received, pending)
    /\ pending' = None
    /\ UNCHANGED <<sv, proj, fpc, exitPath, ferr, closeCount, rclosed, eofSeen, errCh,
                   hpc, pump, outcome>>

\* The transport reads end-of-stream: the writer is closed.
T_EOF ==
    /\ UNCHANGED <<pv, rv>>
    /\ pump = "reading"
    /\ pending = None
    /\ closeCount > 0
    /\ eofSeen' = TRUE
    /\ pump' = "eof"
    /\ UNCHANGED <<sv, proj, fpc, exitPath, ferr, closeCount, pending, rclosed, received,
                   errCh, hpc, outcome>>

\* The transport closes the request body before its end: a transport error,
\* or the server has answered and stopped reading.
T_Close ==
    /\ UNCHANGED <<pv, rv>>
    /\ pump = "reading"
    /\ rclosed' = TRUE
    /\ pump' = "closed"
    /\ UNCHANGED <<sv, proj, fpc, exitPath, ferr, closeCount, pending, received, eofSeen,
                   errCh, hpc, outcome>>

\* client.Do returns an error: the goroutine reports it and returns.
H_DoFails ==
    /\ UNCHANGED <<pv, rv>>
    /\ hpc = "do"
    /\ pump = "closed"
    /\ errCh' = Append(errCh, "err")
    /\ hpc' = "exit"
    /\ UNCHANGED <<sv, proj, fpc, exitPath, ferr, closeCount, pending, rclosed, received,
                   eofSeen, pump, outcome>>

\* client.Do returns a response; postprocessJSONResponse reads its body
\* (for at most responseBodyReadTimeout) and reports on errCh: a read
\* error, a status other than 200, or the result of proc.  After an error of
\* proc a second value, nil, is sent.
H_Response ==
    /\ UNCHANGED <<pv, rv>>
    /\ hpc = "do"
    /\ pump \in {"eof", "closed"}
    /\ \E r \in {"readerr", "status", "procerr", "ok"} :
          /\ errCh' = Append(errCh, IF r = "ok" THEN "nil" ELSE "err")
          /\ hpc' = IF r = "procerr" THEN "send2" ELSE "exit"
    /\ UNCHANGED <<sv, proj, fpc, exitPath, ferr, closeCount, pending, rclosed, received,
                   eofSeen, pump, outcome>>

\* The second send of postprocessJSONResponse, once the channel has room.
H_SecondSend ==
    /\ UNCHANGED <<pv, rv>>
    /\ hpc = "send2"
    /\ Len(errCh) < 1
    /\ errCh' = Append(errCh, "nil")
    /\ hpc' = "exit"
    /\ UNCHANGED <<sv, proj, fpc, exitPath, ferr, closeCount, pending, rclosed, received,
                   eofSeen, pump, outcome>>

NextUpload ==
    \/ F_Files \/ F_DataFiles \/ F_Check \/ F_Open \/ F_Loop \/ F_Encoded
    \/ F_Comma \/ F_Bracket \/ F_Wait
    \/ H_NewRequestFails \/ H_Do \/ H_DoFails \/ H_Response \/ H_SecondSend
    \/ T_Read \/ T_EOF \/ T_Close

SpecUpload == InitUpload /\ [][NextUpload]_vars

\* -------------------------------------------------------- pull behaviour
ZipType == "application/zip;zip_type=cloud_function"

\* The file system below the project root: the regular files, each with the
\* origin of its content.  A directory exists while a file lies under it.
Under(q, t) == t.ext = "" /\ HasDirPrefix(q, t.dir \o <<t.stem>>)

exists(d, t) == t \in DOMAIN d \/ \E q \in DOMAIN d : Under(q, t)

\* os.RemoveAll(t): t and everything under it.
RemoveAll(d, t) == [q \in {r \in DOMAIN d : r # t /\ ~Under(r, t)} |-> d[q]]

\* os.MkdirAll(dir) fails when a regular file is in the way.
MkdirAllFails(d, dir) ==
    \E q \in DOMAIN d :
        /\ q.ext = ""
        /\ Len(q.dir) < Len(dir)
        /\ q.dir = SubSeq(dir, 1, Len(q.dir))
        /\ dir[Len(q.dir) + 1] = q.stem

\* ioutil.WriteFile(t, payload)
WriteFile(d, t) == [q \in DOMAIN d \cup {t} |-> IF q = t THEN "server" ELSE d[q]]

\* path.Join(dir, name) for a member of an archive.
Member(dir, n) == P(dir.dir \o <<dir.stem>>, n.stem, n.ext)

RECURSIVE WriteMembers(_, _, _)
WriteMembers(d, dir, names) ==
    IF names = {} THEN d
    ELSE LET n == CHOOSE x \in names : TRUE
         IN WriteMembers(WriteFile(d, Member(dir, n)), dir, names \ {n})

unzipFiles(d, dir, e) ==
    IF ~e.zipOk THEN [disk |-> d, err |-> TRUE]
    ELSE [disk |-> WriteMembers(d, dir, e.names), err |-> FALSE]

\* An overwrite that needs no approval.
overwriteAlways(frc, ans) == TRUE

\* `if ans == "yes" || force` in WriteToDisk.
overwriteApproved(frc, ans) == ans = "yes" \/ frc

\* WriteToDisk for the entry e of a response; reply is what askYesNo returns
\* if it is called.  The result also tells how often askYesNo was called
\* and whether the existing destination was removed.
WriteToDisk(d, e, frc, reply) ==
    LET target == IF e.contentType = ZipType
                  THEN [e.path EXCEPT !.ext = ""] ELSE e.path
        ex == exists(d, target)
        asked == ex /\ ~frc
        np == IF asked THEN 1 ELSE 0
        ans == IF asked /\ reply # "err" THEN reply ELSE ""
    IN  IF asked /\ reply = "err"
        THEN [disk |-> d, err |-> TRUE, prompts |-> np, replaced |-> FALSE]
        ELSE IF ex /\ ~overwriteApproved(frc, ans)
        THEN [disk |-> d, err |-> FALSE, prompts |-> np, replaced |-> FALSE]
        ELSE LET d1 == IF ex THEN RemoveAll(d, target) ELSE d
                 w == IF MkdirAllFails(d1, target.dir) THEN [disk |-> d1, err |-> TRUE]
                      ELSE IF e.contentType = ZipType THEN unzipFiles(d1, target, e)
                      ELSE [disk |-> WriteFile(d1, target), err |-> FALSE]
             IN  [disk |-> w.disk, err |-> w.err, prompts |-> np, replaced |-> ex]

\* The cases of keyInConfigResp that the sources define (IsEntitySet and
\* IsDeviceFulfillment are not among them); "" is its error.
keyInConfigResp(p) ==
    IF IsWebhookDefinition(p) THEN "webhook"
    ELSE IF IsVertical(p) THEN "verticalSettings"
    ELSE IF IsManifest(p) THEN "manifest"
    ELSE IF IsActions(p) THEN "actions"
    ELSE IF IsIntent(p) THEN "intent"
    ELSE IF IsGlobal(p) THEN "globalIntentEvent"
    ELSE IF IsScene(p) THEN "scene"
    ELSE IF IsType(p) THEN "type"
    ELSE IF IsPrompt(p) THEN "staticPrompt"
    ELSE IF IsResourceBundle(p) THEN "resourceBundle"
    ELSE IF IsSettings(p) THEN "settings"
    ELSE IF IsAccountLinkingSecret(p) THEN "accountLinkingSecret"
    ELSE ""

\* An archive whose member names are not recorded.
namesFromZipNone(e) == {}

\* The paths an entry of the response stands for.
namesFromZip(e) == {Member([e.path EXCEPT !.ext = ""], n) : n \in e.names}

EntryPaths(e) ==
    IF e.contentType = ZipType THEN namesFromZip(e) ELSE {e.path}

\* WriteToDisk takes its `Skipping` branch for the entry e: the destination
\* exists, force is not set and the user answers no.
declined(d, e, frc, ans) ==
    /\ exists(d, IF e.contentType = ZipType THEN [e.path EXCEPT !.ext = ""] ELSE e.path)
    /\ ~frc
    /\ ans = "no"

\* A receiveConfigFiles that records a path only when its file was written.
receiveConfigFileIfWritten(d, sn, e, frc, ans) ==
    IF ~e.wellTyped \/ keyInConfigResp(e.path) = ""
    THEN [disk |-> d, seen |-> sn, err |-> TRUE]
    ELSE LET w == WriteToDisk(d, e, frc, ans)
         IN  [disk |-> w.disk,
              seen |-> IF w.err \/ declined(d, e, frc, ans) THEN sn ELSE sn \cup {e.path},
              err |-> w.err]

\* One iteration of the loop of receiveConfigFiles.
receiveConfigFile(d, sn, e, frc, ans) ==
    IF ~e.wellTyped \/ keyInConfigResp(e.path) = ""
    THEN [disk |-> d, seen |-> sn, err |-> TRUE]
    ELSE LET w == WriteToDisk(d, e, frc, ans)
         IN  [disk |-> w.disk,
              seen |-> IF w.err THEN sn ELSE sn \cup {e.path},
              err |-> w.err]

\* One iteration of the loop of receiveDataFiles.
receiveDataFile(d, sn, e, frc, ans) ==
    LET w == WriteToDisk(d, e, frc, ans)
    IN  IF w.err THEN [disk |-> w.disk, seen |-> sn, err |-> TRUE]
        ELSE IF e.contentType # ZipType
             THEN [disk |-> w.disk, seen |-> sn \cup {e.path}, err |-> FALSE]
        ELSE IF ~e.zipOk THEN [disk |-> w.disk, seen |-> sn, err |-> TRUE]
        ELSE [disk |-> w.disk, seen |-> sn \cup namesFromZip(e), err |-> FALSE]

\* The slice findExtra builds when the keys of u come in the given order.
findExtraSlice(order, b) ==
    LET notInB(k) == k \notin b IN SelectSeq(order, notInB)

\* A flagging of every key that is missing from either map.
findExtraEitherSide(a, b) == {k \in a \cup b : k \notin b \/ k \notin a}

\* The paths findExtra returns: the keys of u = a + b that are not in b.
findExtra(a, b) == {k \in a \cup b : k \notin b}

\* What sendRequest does with the result of receiveStream.
afterStreamAnyway(err) == "find"

afterStream(err) == IF err THEN "done" ELSE "find"

\* What a server can send.
ConfigEntry(p, ok) ==
    [kind |-> "config", path |-> p, contentType |-> "", wellTyped |-> ok,
     names |-> {}, zipOk |-> TRUE]

DataEntry(p, ct, names, ok) ==
    [kind |-> "data", path |-> p, contentType |-> ct, wellTyped |-> TRUE,
     names |-> names, zipOk |-> ok]

ZipNames == {[stem |-> "index", ext |-> ".js"]}

ConfigEntries ==
    {ConfigEntry(PManifest, TRUE), ConfigEntry(PIntentA, TRUE),
     ConfigEntry(PIntentA, FALSE)}

DataEntries ==
    {DataEntry(PPng, "image/png", {}, TRUE)}
      \cup {DataEntry(PWebhookZip, ZipType, ns, TRUE) : ns \in SUBSET ZipNames}
      \cup {DataEntry(PWebhookZip, ZipType, {}, FALSE)}

SeqsUpTo(S, n) == UNION {[1..k -> S] : k \in 0..n}

\* The records that carry a config batch and a data batch of one entry each.
BothBatches == {<<c, d>> : c \in ConfigEntries, d \in DataEntries}

\* A streamRecord: its config entries are handled before its data entries.
Records ==
    {r \in SeqsUpTo(ConfigEntries \cup DataEntries, MaxEntries) :
        \A a \in 1..Len(r), b \in 1..Len(r) :
            (a < b /\ r[a].kind = "data") => r[b].kind = "data"}
      \cup BothBatches

PullPaths == {PManifest, PIntentA, PPng, PWebhookDir, PWebhookJs, PStray}

\* A regular file and a directory cannot have the same name.
TreeOK(fs) == \A q \in fs, t \in fs : ~Under(q, t)

\* ReadDraftJSON or ReadVersionJSON has listed the local files and calls
\* sendRequest.
InitPull ==
    /\ \E fs \in SUBSET PullPaths :
          /\ Cardinality(fs) <= MaxFiles
          /\ TreeOK(fs)
          /\ local = fs
          /\ disk = [q \in fs |-> "local"]
    /\ force \in BOOLEAN
    /\ clean \in BOOLEAN
    /\ ppc = "request"
    /\ nrec = 0
    /\ cur = <<>>
    /\ seen = {}
    /\ confirmed = {}
    /\ sres = "none"
    /\ extra = {}
    /\ todo = {}
    /\ flagged = {}
    /\ reaped = {}
    /\ pres = "none"
    /\ deviations = {}
    /\ skipped = {}
    /\ PlannerIdle
    /\ UploadIdle
    /\ ResponseIdle

\* receiveStream returns err (TRUE: an error) to sendRequest.
StreamReturns(err) ==
    /\ sres' = IF err THEN "err" ELSE "nil"
    /\ ppc' = afterStream(err)
    /\ pres' = IF afterStream(err) = "done" THEN "err" ELSE pres

\* http.NewRequest, client.Do and the status check of sendRequest.
P_Request ==
    /\ ppc = "request"
    /\ \/ ppc' = "done" /\ pres' = "err"
       \/ ppc' = "open" /\ UNCHANGED pres
    /\ UNCHANGED <<local, disk, force, clean, nrec, cur, seen, confirmed, sres,
                   extra, todo, flagged, reaped>>
    /\ UNCHANGED deviations
    /\ UNCHANGED <<sv, uv, rv>>
    /\ UNCHANGED skipped

\* dec.Token() for the opening bracket: "[", or another token or a read
\* error, which make receiveStream fail.
P_Open ==
    /\ ppc = "open"
    /\ \/ ppc' = "more" /\ UNCHANGED <<sres, pres, deviations>>
       \/ StreamReturns(TRUE) /\ deviations' = deviations \cup {"open"}
    /\ UNCHANGED <<local, disk, force, clean, nrec, cur, seen, confirmed,
                   extra, todo, flagged, reaped>>
    /\ UNCHANGED <<sv, uv, rv>>
    /\ UNCHANGED skipped

\* What dec.Decode(&rec) does with an element of the array: an object is
\* decoded, null leaves rec empty without error, anything else is an error.
decodes(kind) == kind \in {"object", "null"}

\* dec.More() is true and dec.Decode(&rec) reads the next element.
P_Decode ==
    /\ ppc = "more"
    /\ cur = <<>>
    /\ \E kind \in {"object", "null", "other"} :
          IF decodes(kind)
          THEN /\ nrec < MaxRecords
               /\ nrec' = nrec + 1
               /\ IF kind = "object"
                  THEN /\ \E r \in Records :
                            /\ cur' = r
                            /\ confirmed' = confirmed \cup
                                  UNION {EntryPaths(r[k]) : k \in 1..Len(r)}
                       /\ UNCHANGED deviations
                  ELSE /\ deviations' = deviations \cup {kind}
                       /\ UNCHANGED <<cur, confirmed>>
               /\ UNCHANGED <<ppc, sres, pres>>
          ELSE /\ StreamReturns(TRUE)
               /\ deviations' = deviations \cup {kind}
               /\ UNCHANGED <<nrec, cur, confirmed>>
    /\ UNCHANGED <<local, disk, force, clean, seen, extra, todo, flagged, reaped>>
    /\ UNCHANGED <<sv, uv, rv>>
    /\ UNCHANGED skipped

\* An entry loop that logs the error of an entry and goes on to the next.
P_EntrySkipsFailed ==
    /\ ppc = "more"
    /\ cur # <<>>
    /\ \E ans \in {"yes", "no", "err"} :
          LET e == Head(cur)
              r == IF e.kind = "config"
                   THEN receiveConfigFile(disk, seen, e, force, ans)
                   ELSE receiveDataFile(disk, seen, e, force, ans)
          IN  /\ disk' = r.disk
              /\ seen' = r.seen
              /\ skipped' = IF declined(disk, e, force, ans) /\ ~r.err
                            THEN skipped \cup EntryPaths(e) ELSE skipped
              /\ IF r.err
                 THEN cur' = Tail(cur) /\ UNCHANGED <<ppc, sres, pres>>
                 ELSE cur' = Tail(cur) /\ UNCHANGED <<ppc, sres, pres>>
    /\ UNCHANGED <<local, force, clean, nrec, confirmed, extra, todo, flagged, reaped>>
    /\ UNCHANGED deviations
    /\ UNCHANGED <<sv, uv, rv>>

\* One entry of the record: receiveConfigFiles or receiveDataFiles writes
\* it to disk and records it in seen.
P_Entry ==
    /\ ppc = "more"
    /\ cur # <<>>
    /\ \E ans \in {"yes", "no", "err"} :
          LET e == Head(cur)
              r == IF e.kind = "config"
                   THEN receiveConfigFile(disk, seen, e, force, ans)
                   ELSE receiveDataFile(disk, seen, e, force, ans)
          IN  /\ disk' = r.disk
              /\ seen' = r.seen
              /\ skipped' = IF declined(disk, e, force, ans) /\ ~r.err
                            THEN skipped \cup EntryPaths(e) ELSE skipped
              /\ IF r.err
                 THEN StreamReturns(TRUE) /\ UNCHANGED cur
                 ELSE cur' = Tail(cur) /\ UNCHANGED <<ppc, sres, pres>>
    /\ UNCHANGED <<local, force, clean, nrec, confirmed, extra, todo, flagged, reaped>>
    /\ UNCHANGED deviations
    /\ UNCHANGED <<sv, uv, rv>>

\* dec.More() is false: dec.Token() for the closing bracket, which is "]"
\* or an error.  Nothing is read after "]", whatever follows it in the body.
P_Close ==
    /\ ppc = "more"
    /\ cur = <<>>
    /\ \/ StreamReturns(FALSE) /\ UNCHANGED deviations
       \/ StreamReturns(FALSE) /\ deviations' = deviations \cup {"trailing"}
       \/ StreamReturns(TRUE) /\ deviations' = deviations \cup {"close"}
    /\ UNCHANGED <<local, disk, force, clean, nrec, cur, seen, confirmed,
                   extra, todo, flagged, reaped>>
    /\ UNCHANGED <<sv, uv, rv>>
    /\ UNCHANGED skipped

\* extra := findExtra(files, seen)
P_FindExtra ==
    /\ ppc = "find"
    /\ extra' = findExtra(local, seen)
    /\ todo' = findExtra(local, seen)
    /\ ppc' = "extras"
    /\ UNCHANGED <<local, disk, force, clean, nrec, cur, seen, confirmed, sres,
                   flagged, reaped, pres>>
    /\ UNCHANGED deviations
    /\ UNCHANGED <<sv, uv, rv>>
    /\ UNCHANGED skipped

\* One iteration of `for _, v := range extra`: a warning, and with clean
\* os.RemoveAll, whose error ends the pass.
P_Extra ==
    /\ ppc = "extras"
    /\ \E v \in todo :
          /\ flagged' = flagged \cup {v}
          /\ todo' = todo \ {v}
          /\ IF clean
             THEN \/ /\ disk' = RemoveAll(disk, v)
                     /\ reaped' = reaped \cup (DOMAIN disk \ DOMAIN RemoveAll(disk, v))
                     /\ UNCHANGED <<ppc, pres>>
                  \/ /\ ppc' = "done"
                     /\ pres' = "err"
                     /\ UNCHANGED <<disk, reaped>>
             ELSE UNCHANGED <<disk, reaped, ppc, pres>>
    /\ UNCHANGED <<local, force, clean, nrec, cur, seen, confirmed, sres, extra>>
    /\ UNCHANGED deviations
    /\ UNCHANGED <<sv, uv, rv>>
    /\ UNCHANGED skipped

\* return nil
P_Return ==
    /\ ppc = "extras"
    /\ todo = {}
    /\ ppc' = "done"
    /\ pres' = "nil"
    /\ UNCHANGED <<local, disk, force, clean, nrec, cur, seen, confirmed, sres,
                   extra, todo, flagged, reaped>>
    /\ UNCHANGED deviations
    /\ UNCHANGED <<sv, uv, rv>>
    /\ UNCHANGED skipped

NextPull ==
    \/ P_Request \/ P_Open \/ P_Decode \/ P_Entry \/ P_Close
    \/ P_FindExtra \/ P_Extra \/ P_Return

SpecPull == InitPull /\ [][NextPull]_vars

\* ---------------------------------------------------- response behaviour
MaxBody == 2        \* largest number of bytes of a response body

\* A response body: its bytes, how its stream ends (io.EOF or another
\* error), and whether the Read that returns the last byte also returns the
\* end (an io.Reader may do either).
Bodies ==
    {[data |-> d, end |-> e, together |-> t] :
        d \in SeqsUpTo({"a", "b"}, MaxBody), e \in {"eof", "err"}, t \in BOOLEAN}

\* body.Read(buf) with len(buf) = 1.
bodyRead(left, b) ==
    IF left = <<>> THEN [n |-> 0, byte |-> "", err |-> b.end]
    ELSE [n |-> 1, byte |-> Head(left),
          err |-> IF Len(left) = 1 /\ b.together THEN b.end ELSE "nil"]

\* The value a read of jsonString yields.  The goroutine writes the two
\* words of the string without synchronisation; a read between the two
\* stores pairs the old data with the new length and runs one byte past
\* the old data.
jsonString ==
    IF jsLen <= Len(jsPtr) THEN SubSeq(jsPtr, 1, jsLen) ELSE jsPtr \o <<"?">>

\* DecryptSecretJSON (sync) or the goroutine of WriteDraftJSON (not sync)
\* has got resp from client.Do and calls postprocessJSONResponse, which
\* calls readBodyWithTimeout: the reading goroutine and the timer start.
InitResponse ==
    /\ bodyIn \in {b \in Bodies : b.together => b.data # <<>>}
    /\ status \in {200, 500}
    /\ sync \in BOOLEAN
    /\ bleft = bodyIn.data
    /\ delivered = <<>>
    /\ rd = NoRead
    /\ jsPtr = <<>>
    /\ jsLen = 0
    /\ gpc = "read"
    /\ rch = <<>>
    /\ timer = "running"
    /\ eofFirst = FALSE
    /\ rret = NoRet
    /\ qpc = "select"
    /\ pch = <<>>
    /\ nsent = 0
    /\ cpc = "recv"
    /\ cres = "none"
    /\ PlannerIdle
    /\ UploadIdle
    /\ PullIdle

\* n, err := body.Read(buf)
R_Read ==
    /\ gpc = "read"
    /\ rd' = bodyRead(bleft, bodyIn)
    /\ bleft' = IF bleft = <<>> THEN bleft ELSE Tail(bleft)
    /\ delivered' = IF bleft = <<>> THEN delivered ELSE Append(delivered, Head(bleft))
    /\ gpc' = IF bleft = <<>> THEN "send" ELSE "append"
    /\ UNCHANGED <<bodyIn, status, sync, jsPtr, jsLen, rch, timer, eofFirst, rret, qpc,
                   pch, nsent, cpc, cres>>
    /\ UNCHANGED <<sv, uv, pv>>

\* jsonString += string(buf): the first of the two stores, in either order.
R_Store ==
    /\ gpc = "append"
    /\ \/ jsPtr' = Append(jsPtr, rd.byte) /\ gpc' = "store_len" /\ UNCHANGED jsLen
       \/ jsLen' = jsLen + 1 /\ gpc' = "store_ptr" /\ UNCHANGED jsPtr
    /\ UNCHANGED <<bodyIn, status, sync, bleft, delivered, rd, rch, timer, eofFirst, rret,
                   qpc, pch, nsent, cpc, cres>>
    /\ UNCHANGED <<sv, uv, pv>>

\* The second store, then `if err != nil`.
R_Stored ==
    /\ gpc \in {"store_len", "store_ptr"}
    /\ IF gpc = "store_len"
       THEN jsLen' = jsLen + 1 /\ UNCHANGED jsPtr
       ELSE jsPtr' = Append(jsPtr, rd.byte) /\ UNCHANGED jsLen
    /\ gpc' = IF rd.err # "nil" THEN "send" ELSE "read"
    /\ UNCHANGED <<bodyIn, status, sync, bleft, delivered, rd, rch, timer, eofFirst, rret,
                   qpc, pch, nsent, cpc, cres>>
    /\ UNCHANGED <<sv, uv, pv>>

\* errCh <- err; break
R_Send ==
    /\ gpc = "send"
    /\ Len(rch) < 1
    /\ rch' = Append(rch, rd.err)
    /\ gpc' = "exit"
    /\ UNCHANGED <<bodyIn, status, sync, bleft, delivered, rd, jsPtr, jsLen, timer, eofFirst,
                   rret, qpc, pch, nsent, cpc, cres>>
    /\ UNCHANGED <<sv, uv, pv>>

\* The timer of time.After(timeout) fires.
R_TimerFires ==
    /\ qpc = "select"
    /\ timer = "running"
    /\ timer' = "fired"
    /\ eofFirst' = (rch # <<>> /\ Head(rch) = "eof")
    /\ UNCHANGED <<bodyIn, status, sync, bleft, delivered, rd, jsPtr, jsLen, gpc, rch, rret,
                   qpc, pch, nsent, cpc, cres>>
    /\ UNCHANGED <<sv, uv, pv>>

\* case <-time.After(timeout): return []byte(jsonString), nil
R_Timeout ==
    /\ qpc = "select"
    /\ timer = "fired"
    /\ rret' = [via |-> "timeout", body |-> jsonString, err |-> "nil"]
    /\ qpc' = "status"
    /\ UNCHANGED <<bodyIn, status, sync, bleft, delivered, rd, jsPtr, jsLen, gpc, rch, timer,
                   eofFirst, pch, nsent, cpc, cres>>
    /\ UNCHANGED <<sv, uv, pv>>

\* case err := <-errCh: the body on io.EOF, the error otherwise.
R_Received ==
    /\ qpc = "select"
    /\ rch # <<>>
    /\ rch' = Tail(rch)
    /\ rret' = IF Head(rch) = "eof"
               THEN [via |-> "eof", body |-> jsonString, err |-> "nil"]
               ELSE [via |-> "err", body |-> <<>>, err |-> "err"]
    /\ qpc' = "status"
    /\ UNCHANGED <<bodyIn, status, sync, bleft, delivered, rd, jsPtr, jsLen, gpc, timer,
                   eofFirst, pch, nsent, cpc, cres>>
    /\ UNCHANGED <<sv, uv, pv>>

\* errCh <- v in postprocessJSONResponse: it blocks while the buffer is
\* full.
Send(v) ==
    /\ Len(pch) < 1
    /\ pch' = Append(pch, v)
    /\ nsent' = nsent + 1

\* The tests of the read error and of resp.StatusCode.
Q_Status ==
    /\ qpc = "status"
    /\ IF rret.err # "nil" \/ status # 200
       THEN Send("err") /\ qpc' = "exit"
       ELSE qpc' = "proc" /\ UNCHANGED <<pch, nsent>>
    /\ UNCHANGED <<bodyIn, status, sync, bleft, delivered, rd, jsPtr, jsLen, gpc, rch, timer,
                   eofFirst, rret, cpc, cres>>
    /\ UNCHANGED <<sv, uv, pv>>

\* if err := proc(body); err != nil { errCh <- err }
Q_Proc ==
    /\ qpc = "proc"
    /\ \/ UNCHANGED <<pch, nsent>>
       \/ Send("err")
    /\ qpc' = "sendnil"
    /\ UNCHANGED <<bodyIn, status, sync, bleft, delivered, rd, jsPtr, jsLen, gpc, rch, timer,
                   eofFirst, rret, cpc, cres>>
    /\ UNCHANGED <<sv, uv, pv>>

\* errCh <- nil
Q_SendNil ==
    /\ qpc = "sendnil"
    /\ Send("nil")
    /\ qpc' = "exit"
    /\ UNCHANGED <<bodyIn, status, sync, bleft, delivered, rd, jsPtr, jsLen, gpc, rch, timer,
                   eofFirst, rret, cpc, cres>>
    /\ UNCHANGED <<sv, uv, pv>>

\* <-errCh: in DecryptSecretJSON after postprocessJSONResponse has
\* returned, in WriteDraftJSON while the goroutine runs.
D_Receive ==
    /\ cpc = "recv"
    /\ sync => qpc = "exit"
    /\ pch # <<>>
    /\ cres' = Head(pch)
    /\ pch' = Tail(pch)
    /\ cpc' = "returned"
    /\ UNCHANGED <<bodyIn, status, sync, bleft, delivered, rd, jsPtr, jsLen, gpc, rch, timer,
                   eofFirst, rret, qpc, nsent>>
    /\ UNCHANGED <<sv, uv, pv>>

NextResponse ==
    \/ R_Read \/ R_Store \/ R_Stored \/ R_Send \/ R_TimerFires \/ R_Timeout
    \/ R_Received \/ Q_Status \/ Q_Proc \/ Q_SendNil \/ D_Receive

SpecResponse == InitResponse /\ [][NextResponse]_vars

\* ------------------------------------------------- planner: properties
\* The files a request carries.
ReqConfigPaths(req) == {req.configFiles[k].filePath : k \in 1..Len(req.configFiles)}
ReqDataPaths(req) == {d.filePath : d \in req.dataFiles}

\* The estimate of a request from the inputs of NewStreamer: the raw length
\* of its config files plus the base64 length of its data files.
ReqEstimate(req) ==
    SumOver(ReqConfigPaths(req), [p \in ReqConfigPaths(req) |-> cfgIn[p].len])
    + SumOver(ReqDataPaths(req), [p \in ReqDataPaths(req) |-> B64Len(dataIn[p].len)])

\* C1: every request Next returned holds files whose estimated sizes sum to
\* at most chunkSize.
C1_ChunkWithinBudget ==
    \A k \in 1..Len(emitted) : ReqEstimate(emitted[k].req) <= chunkSize

\* C1 witness: a request of two or more files was returned, exactly filling
\* the budget, and another request followed it.
C1_Witness ==
    \E k \in 1..Len(emitted) - 1 :
        /\ Cardinality(emitted[k].chunk) >= 2
        /\ ReqEstimate(emitted[k].req) = chunkSize
        /\ emitted[k + 1].inLoop

\* The requests returned while HasNext was true.
LoopRequests == {k \in 1..Len(emitted) : emitted[k].inLoop}

\* The pass `for HasNext() { Next() }` has ended and no Next failed.
PassDone == ~HasNext /\ lastErr = NoErr

\* C2: when the pass ends without a failed Next, every input config file
\* and every input data file of a supported type is in exactly one request
\* of the pass.
C2_EveryFileSentOnce ==
    PassDone =>
        /\ \A p \in DOMAIN cfgIn :
              Cardinality({k \in LoopRequests : p \in ReqConfigPaths(emitted[k].req)}) = 1
        /\ \A p \in {q \in DOMAIN dataIn : contentType(q) # ""} :
              Cardinality({k \in LoopRequests : p \in ReqDataPaths(emitted[k].req)}) = 1

\* C3: HasNext is false exactly when both cursors are at the end of their
\* lists.
C3_HasNextIffCursorsAtEnd ==
    ~HasNext <=> (i = Len(configFilenames) /\ j = Len(dataFilenames))

\* The file Next looks at first.
AtCursor == i < Len(configFilenames) \/ j < Len(dataFilenames)
CursorFile ==
    IF i < Len(configFilenames) THEN configFilenames[i + 1] ELSE dataFilenames[j + 1]

\* C4: when the file at the cursor alone exceeds the budget, Next fails
\* with a sizing error naming that file, returns no request and moves no
\* cursor.
C4_OversizedFileFails ==
    [][(AtCursor /\ sizes[CursorFile] > chunkSize) =>
          /\ lastErr' = [type |-> "size", file |-> CursorFile]
          /\ emitted' = emitted
          /\ i' = i
          /\ j' = j]_vars

\* C4 witness: after at least one request, Next failed on an oversized file.
C4_Witness ==
    /\ lastErr # NoErr
    /\ lastErr.type = "size"
    /\ sizes[lastErr.file] > chunkSize
    /\ Len(emitted) >= 1

\* -------------------------------------------------- upload: properties
Returned == fpc \in {"wait", "done"}

\* C5: sendFilesToServerJSON closes the pipe writer exactly once on every
\* exit path: the writer is closed once when the function has returned,
\* by whichever return statement, and not at all before.
C5_WriterClosedExactlyOnce ==
    /\ closeCount <= 1
    /\ Returned <=> closeCount = 1
    /\ Returned <=> exitPath # "none"

\* The function has returned through the planner-error path and w is closed.
C5_Witness == exitPath = "next" /\ ferr = "err" /\ closeCount = 1 /\ Len(received) >= 2

\* C6: an upload never deadlocks: as long as the caller has not returned an
\* outcome, some step of the caller, the goroutine or the transport can be
\* taken.
C6_UploadNeverStuck == fpc = "done" \/ ENABLED NextUpload

RECURSIVE Framed(_)
\* "[", the chunks of reqs in order with one "," between neighbours, no "]".
Framed(reqs) ==
    IF reqs = <<>> THEN <<Tok("[")>>
    ELSE IF Len(reqs) = 1 THEN <<Tok("["), Encode(reqs[1].req)>>
    ELSE Framed(SubSeq(reqs, 1, Len(reqs) - 1))
           \o <<Tok(","), Encode(reqs[Len(reqs)].req)>>

\* C7: when sendFilesToServerJSON finishes with no planner error and no
\* write failure, the reader has received "[", the JSON of each chunk in the
\* order Next returned them with a single "," between consecutive chunks,
\* then "]", and all that is left for it to read is end-of-stream.
C7_StreamIsFramedArray ==
    exitPath = "ok" =>
        /\ received = Framed(emitted) \o <<Tok("]")>>
        /\ pending = None
        /\ closeCount = 1

\* Two chunks or more were sent, the function returned normally and the
\* reader saw end-of-stream.
C7_Witness == exitPath = "ok" /\ Len(emitted) >= 2 /\ eofSeen

\* ---------------------------------------------------- pull: properties
\* C8: in a pull with the clean flag, the reconciler removes only paths
\* returned by findExtra, and removes no file that the server confirmed in
\* this pass.
C8_CleanRemovesOnlyExtras ==
    clean => (reaped \subseteq extra /\ reaped \cap confirmed = {})

\* C9: in a pull without the clean flag, every local file that existed
\* before the pass and is absent from the response is still on disk.
C9_NoCleanKeepsLocalFiles ==
    ~clean => \A p \in local : p \in DOMAIN disk \/ p \in confirmed

\* C10: reconciliation runs only after the whole response stream has been
\* decoded without error, and when receiveStream fails nothing is flagged
\* as extra and the reconciler deletes nothing.
C10_ReconcileOnlyAfterWholeStream ==
    /\ (ppc \in {"find", "extras"} \/ extra # {} \/ flagged # {} \/ reaped # {})
          => (sres = "nil" /\ cur = <<>>)
    /\ sres = "err"
          => (extra = {} /\ flagged = {} /\ reaped = {} /\ ppc = "done" /\ pres = "err")

\* The stream failed after a record had been written, with a local file
\* that the response did not name, and the pass ended without reconciling.
C10_Witness ==
    /\ sres = "err"
    /\ nrec >= 1
    /\ seen # {}
    /\ local \ seen # {}
    /\ ppc = "done"

RECURSIVE Perms(_)
\* The orders in which `for k := range u` can visit the keys of u.
Perms(S) ==
    IF S = {} THEN {<<>>}
    ELSE UNION {{<<x>> \o t : t \in Perms(S \ {x})} : x \in S}

\* C11: findExtra(local, seen) returns exactly the local paths that are not
\* keys of seen, each once, whatever the iteration order of the map: nothing
\* when seen holds every local path, and never a path that is only in seen.
C11_FindExtraIsLocalMinusSeen ==
    /\ ppc = "extras" =>
          /\ extra = {p \in local : p \notin seen}
          /\ (local \subseteq seen => extra = {})
          /\ extra \cap (seen \ local) = {}
    /\ ppc = "find" =>
          \A o \in Perms(local \cup seen) :
              LET sl == findExtraSlice(o, seen)
              IN  /\ Range(sl) = findExtra(local, seen)
                  /\ Len(sl) = Cardinality(Range(sl))

\* findExtra has run with a local path in seen, a local path not in seen
\* and a path that is only in seen.
C11_Witness ==
    /\ ppc = "extras"
    /\ local \cap seen # {}
    /\ local \ seen # {}
    /\ seen \ local # {}
    /\ extra = local \ seen

\* The files on disk whose content was written by this pass.
WrittenOnDisk == {q \in DOMAIN disk : disk[q] = "server"}

\* C12: while receiveStream has not failed, and so when it returns
\* successfully, every path written to disk by the pass is in seen, and
\* every path in seen was declared by an entry of the response or derived
\* from a member of a bundle entry.  Each entry is written and recorded in
\* one step and seen only grows, so this covers paths written earlier in the
\* pass as well.
C12_WrittenPathsAreSeen ==
    (ppc \in {"more", "find"} /\ sres # "err") =>
        /\ WrittenOnDisk \subseteq seen
        /\ seen \subseteq confirmed

\* receiveStream returned nil after writing a bundle member and after the
\* user declined to overwrite a local file.
C12_Witness ==
    /\ sres = "nil"
    /\ ppc = "find"
    /\ PWebhookJs \in WrittenOnDisk
    /\ \E q \in seen : q \in DOMAIN disk /\ disk[q] = "local"

\* The destination of WriteToDisk for the entry e.
Destination(e) ==
    IF e.contentType = ZipType THEN [e.path EXCEPT !.ext = ""] ELSE e.path

\* C13: at every call of WriteToDisk a pull makes, whatever the user replies:
\* an existing destination is replaced only when force is set or the user
\* said yes to the one prompt; with force there is no prompt; when the user
\* declines, the disk is unchanged and no error is returned.
C13_OverwriteNeedsForceOrYes ==
    (ppc = "more" /\ cur # <<>>) =>
        \A reply \in {"yes", "no", "err"} :
            LET e == Head(cur)
                w == WriteToDisk(disk, e, force, reply)
                ex == exists(disk, Destination(e))
            IN  /\ w.prompts <= 1
                /\ force => w.prompts = 0
                /\ (ex /\ (w.replaced \/ w.disk # disk))
                      => (force \/ (reply = "yes" /\ w.prompts = 1))
                /\ (ex /\ ~force /\ reply = "no")
                      => (w.disk = disk /\ ~w.err /\ ~w.replaced /\ w.prompts = 1)
                /\ ~ex => (w.prompts = 0 /\ ~w.replaced)

\* Without force, the user declined to overwrite one local file, which is
\* still there, and agreed to overwrite another, which was replaced.
C13_Witness ==
    /\ ~force
    /\ ppc = "more"
    /\ \E q \in seen \cap local : q \in DOMAIN disk /\ disk[q] = "local"
    /\ \E q \in seen \cap local : q \in DOMAIN disk /\ disk[q] = "server"

\* C14: receiveStream returns nil only when the body is "[", then zero or
\* more record objects, then "]" and nothing else.
C14_SuccessOnlyIfWellFramed == sres = "nil" => deviations = {}

\* ----------------------------------------- planner: properties, continued
\* The manifest and settings files among the config files given to
\* NewStreamer.
Priority == {p \in DOMAIN cfgIn : IsSettings(p) \/ IsManifest(p)}

\* C15: the first request returned by Next contains the manifest and all of
\* the settings files of the project.
C15_FirstRequestHasManifestAndSettings ==
    Len(emitted) >= 1 => Priority \subseteq ReqConfigPaths(emitted[1].req)

\* C16: in the configFiles array of the first request, the manifest and
\* settings files come before every other config file of that request.
C16_PriorityFilesLeadFirstChunk ==
    (Len(emitted) >= 1 /\ emitted[1].req.kind = "config") =>
        LET arr == emitted[1].req.configFiles
        IN  \A a \in 1..Len(arr), b \in 1..Len(arr) :
                (a < b /\ arr[b].filePath \in Priority) => arr[a].filePath \in Priority

\* s lists the elements of S, each once.
IsPermutationOf(s, S) == Range(s) = S /\ Len(s) = Cardinality(S)

\* The sub-list of the elements of s that are in S.
Filter(s, S) == LET inS(x) == x \in S IN SelectSeq(s, inS)

NonDecreasingFrom(s, k) == \A a \in k..Len(s) - 1 : sizes[s[a]] <= sizes[s[a + 1]]

\* C17: whatever order the config map is iterated in, sortConfigFiles
\* yields a permutation of the config paths with the manifest and settings
\* files first, in the relative order they had before, followed by the
\* others in non-decreasing estimated size; the streamer's lists are such
\* permutations, the data list in non-decreasing estimated size.
C17_NameListsAreOrdered ==
    /\ IsPermutationOf(configFilenames, DOMAIN cfgIn)
    /\ Filter(configFilenames, Priority) = SubSeq(configFilenames, 1, Cardinality(Priority))
    /\ NonDecreasingFrom(configFilenames, Cardinality(Priority) + 1)
    /\ IsPermutationOf(dataFilenames, DOMAIN dataIn)
    /\ NonDecreasingFrom(dataFilenames, 1)
    /\ (i = 0 /\ j = 0 /\ emitted = <<>>) =>
          \A o \in Orders(DOMAIN cfgIn) :
              \A c \in sortConfigFiles(o, sizes) :
                  /\ IsPermutationOf(c, DOMAIN cfgIn)
                  /\ SubSeq(c, 1, Cardinality(Priority)) = Filter(o, Priority)
                  /\ NonDecreasingFrom(c, Cardinality(Priority) + 1)

\* A streamer just built with two priority files, the first of them larger
\* than the config file that is not a priority file.
C17_Witness ==
    /\ Cardinality(Priority) = 2
    /\ Len(configFilenames) = 3
    /\ sizes[configFilenames[3]] < sizes[configFilenames[1]]
    /\ emitted = <<>>

\* The list a Next call at the cursors at = <<i, j>> takes its chunk from,
\* and its cursor in that list.
ListAt(at) == IF at[1] < Len(configFilenames) THEN configFilenames ELSE dataFilenames
CursorAt(at) == IF at[1] < Len(configFilenames) THEN at[1] ELSE at[2]

\* The chunk c taken from the list a at the cursor n is the longest run of
\* consecutive names that fits the budget.
LongestRun(c, a, n) ==
    LET len == Cardinality(c)
        sum == SumOver(c, sizes)
    IN  /\ c = {a[k] : k \in n + 1..n + len}
        /\ sum <= chunkSize
        /\ n + len = Len(a) \/ sum + sizes[a[n + len + 1]] > chunkSize

\* C18: each chunk returned by Next is the longest run of consecutive names
\* from the cursor whose estimated sizes sum to at most the budget.
C18_ChunkIsLongestRun ==
    \A k \in 1..Len(emitted) :
        CursorAt(emitted[k].at) < Len(ListAt(emitted[k].at)) =>
            LongestRun(emitted[k].chunk, ListAt(emitted[k].at), CursorAt(emitted[k].at))

HasConfigBatch(req) == req.hasFiles /\ req.configFiles # <<>>
HasDataBatch(req) == req.hasFiles /\ req.dataFiles # {}

\* C19: every request Next returned while HasNext was true has the fields
\* of the base request and either a config-file batch or a data-file batch,
\* not both and not neither.
C19_ExactlyOneBatch ==
    \A k \in LoopRequests :
        /\ emitted[k].req.base = baseRequest.base
        /\ HasConfigBatch(emitted[k].req) # HasDataBatch(emitted[k].req)

\* The data files of a chunk that addDataFiles puts in the request.
Supported(c) == {p \in c : contentType(p) # ""}

\* C20: a data file of an unsupported content type is not counted against
\* the budget: no Next call fails on it, and a data chunk ends only at the
\* end of the list or before a file that does not fit next to the
\* supported files of the chunk.
C20_UnsupportedFilesCostNothing ==
    /\ (lastErr.type = "size" /\ i = Len(configFilenames))
          => contentType(lastErr.file) # ""
    /\ \A k \in 1..Len(emitted) :
          LET at == emitted[k].at
              c == emitted[k].chunk
              last == at[2] + Cardinality(c)
          IN  (at[1] = Len(configFilenames) /\ last < Len(dataFilenames)) =>
                  SumOver(Supported(c), sizes) + sizes[dataFilenames[last + 1]] > chunkSize

\* ------------------------------------------ upload: properties, continued
\* The return statements sendFilesToServerJSON takes after a failed write:
\* of "[", of a request, of "," and of "]".
WriteFailurePaths == {"open", "encode", "comma", "bracket"}

\* C21: when a write of sendFilesToServerJSON on the pipe fails because the
\* read end is closed, whichever write it is, the function returns without
\* error.
C21_WriteFailureNotEscalated == exitPath \in WriteFailurePaths => ferr = "nil"

\* The project has both settings/settings.yaml and manifest.yaml among its
\* config files (and so has config files).
HasBaseFiles == {PSettings, PManifest} \subseteq DOMAIN ConfigFiles(proj)

\* C22: for a project without config files, without settings/settings.yaml
\* or without manifest.yaml, sendFilesToServerJSON writes no byte on the
\* pipe, and when it has returned it has returned an error, before the
\* write of "[", and the writer is closed: the reader gets an empty stream.
C22_NoBaseFilesNoBytes ==
    ~HasBaseFiles =>
        /\ received = <<>>
        /\ pending = None
        /\ fpc \in {"idle", "files", "data", "check", "done"}
        /\ Returned =>
              /\ ferr = "err"
              /\ exitPath \in {"files", "data", "check"}
              /\ closeCount = 1

\* check has rejected a project that has config files but no manifest.yaml,
\* and the reader has read end-of-stream.
C22_Witness ==
    /\ DOMAIN ConfigFiles(proj) # {}
    /\ PSettings \in DOMAIN proj
    /\ PManifest \notin DOMAIN proj
    /\ exitPath = "check"
    /\ ferr = "err"
    /\ received = <<>>
    /\ eofSeen

\* ----------------------------------------- planner: properties, continued
\* request.Padding, the bytes set aside for the JSON around the payloads,
\* and the budget sendFilesToServerJSON gives to NewStreamer; lengths are
\* scaled down as the file lengths are.
Padding == 2
MaxChunkSizeBytes == chunkSize + Padding

\* The JSON of one entry of a batch without its payload (the braces, the
\* "filePath" key and the path, the category or "contentType" and "payload"
\* keys), and the JSON of the base request with the "files" object.
EntryOverhead == 1
BaseLen == 1

\* A lower bound of len(json.Marshal(req)): the base request, every entry of
\* the batch, and the base64 text of the data payloads.  The JSON of a
\* config file's YAML value is counted as nothing.
WireLenAtLeast(req) ==
    BaseLen
    + EntryOverhead * (Len(req.configFiles) + Cardinality(req.dataFiles))
    + SumOver(ReqDataPaths(req), [p \in ReqDataPaths(req) |-> B64Len(dataIn[p].len)])

\* C23: with the budget MaxChunkSizeBytes - Padding, the JSON of every
\* request Next returned is at most MaxChunkSizeBytes long.
C23_RequestWithinWireLimit ==
    \A k \in 1..Len(emitted) : WireLenAtLeast(emitted[k].req) <= MaxChunkSizeBytes

\* ----------------------------------------------- pull: properties, continued
\* receiveDataFiles has handled the bundle entry at the head of the record
\* without error.
BundleHandled ==
    /\ ppc = "more"
    /\ cur # <<>>
    /\ Head(cur).contentType = ZipType
    /\ cur' = Tail(cur)

\* C24: when a data entry with the cloud-function bundle content type has
\* been handled, seen holds the derived path of every member of the bundle
\* and the path of the bundle itself.
C24_BundleMembersAndBundleSeen ==
    [][BundleHandled =>
          (namesFromZip(Head(cur)) \cup {Head(cur).path}) \subseteq seen']_vars

\* ----------------------------------------- planner: properties, continued
\* The categories whose predicate accepts the path p.
Categories(p) ==
    {c \in {"manifest", "settings", "actions", "intent", "globalIntentEvent",
            "scene", "type", "staticPrompt", "verticalSettings",
            "resourceBundle", "accountLinkingSecret", "webhook"} :
        \/ c = "manifest" /\ IsManifest(p)
        \/ c = "settings" /\ IsSettings(p)
        \/ c = "actions" /\ IsActions(p)
        \/ c = "intent" /\ IsIntent(p)
        \/ c = "globalIntentEvent" /\ IsGlobal(p)
        \/ c = "scene" /\ IsScene(p)
        \/ c = "type" /\ IsType(p)
        \/ c = "staticPrompt" /\ IsPrompt(p)
        \/ c = "verticalSettings" /\ IsVertical(p)
        \/ c = "resourceBundle" /\ IsResourceBundle(p)
        \/ c = "accountLinkingSecret" /\ IsAccountLinkingSecret(p)
        \/ c = "webhook" /\ IsWebhookDefinition(p)}

\* C25: every file of the project satisfies at most one of the category
\* predicates, and no path is both among the config files and among the
\* data files given to NewStreamer.
C25_ClassificationIsAFunction ==
    /\ \A p \in DOMAIN files : Cardinality(Categories(p)) <= 1
    /\ DOMAIN cfgIn \cap DOMAIN dataIn = {}

\* The config entries of a request.
ReqConfigEntries(req) == {req.configFiles[k] : k \in 1..Len(req.configFiles)}

\* What receiveConfigFiles does with the entry e echoed by the server: it
\* fails when keyInConfigResp fails or when the entry has no value under
\* the key keyInConfigResp returns.
EchoAccepted(e) ==
    /\ keyInConfigResp(e.filePath) # ""
    /\ keyInConfigResp(e.filePath) = e.key

\* C26: every config entry of every request Next returned carries its
\* value under the key keyInConfigResp returns for its path, so that
\* receiveConfigFiles accepts the entry when it comes back unchanged.
C26_UploadKeyIsDownloadKey ==
    \A k \in 1..Len(emitted) :
        \A e \in ReqConfigEntries(emitted[k].req) : EchoAccepted(e)

\* ----------------------------------------------- pull: properties, continued
\* C27: once receiveStream has returned nil, sendRequest returns nil,
\* whatever happens while the extra files are warned about or removed.
C27_ReconcileNeverFails == (sres = "nil" /\ ppc = "done") => pres = "nil"

\* ----------------------------------------- planner: properties, continued
\* The config files the first n requests carried.
ConfigSentBy(n) == UNION {ReqConfigPaths(emitted[k].req) : k \in 1..n}

\* C28: in the sequence of requests Next returned, no request with a
\* config batch comes after a request with a data batch, and when a request
\* with a data batch is returned every config file has been sent in an
\* earlier request.
C28_ConfigChunksBeforeDataChunks ==
    /\ \A a \in 1..Len(emitted), b \in 1..Len(emitted) :
          (a < b /\ HasDataBatch(emitted[a].req)) => ~HasConfigBatch(emitted[b].req)
    /\ \A k \in 1..Len(emitted) :
          HasDataBatch(emitted[k].req) => DOMAIN cfgIn \subseteq ConfigSentBy(k - 1)

\* Two config requests were returned, then a data request.
C28_Witness ==
    /\ Len(emitted) >= 3
    /\ HasConfigBatch(emitted[1].req)
    /\ HasConfigBatch(emitted[2].req)
    /\ HasDataBatch(emitted[3].req)

\* ------------------------------------------------- response: properties
IsPrefix(a, b) == Len(a) <= Len(b) /\ a = SubSeq(b, 1, Len(a))

\* C29: readBodyWithTimeout returns the whole body and no error when it
\* receives io.EOF, and also when io.EOF had been sent before the timer
\* fired; when the timer wins it returns no error and bytes that the
\* goroutine has read from the body; the goroutine never waits to send on
\* its error channel.
C29_ReadBodyWithTimeout ==
    /\ rret.via = "eof" => (rret.err = "nil" /\ rret.body = bodyIn.data)
    /\ (rret.via = "timeout" /\ eofFirst) => rret.body = bodyIn.data
    /\ rret.via = "timeout" => (rret.err = "nil" /\ IsPrefix(rret.body, delivered))
    /\ gpc = "send" => Len(rch) < 1

\* C30: postprocessJSONResponse has sent exactly one value on the error
\* channel when it returns, and while the receiver has not got its value
\* either readBodyWithTimeout is running or a step of
\* postprocessJSONResponse or of the receiver is possible.
C30_ExactlyOneSend ==
    /\ qpc = "exit" => nsent = 1
    /\ \/ cpc # "recv"
       \/ qpc = "select"
       \/ ENABLED (Q_Status \/ Q_Proc \/ Q_SendNil \/ D_Receive)

\* ----------------------------------------------- pull: properties, continued
\* C31: the paths of an entry whose overwrite the user declined are in seen
\* as long as receiveStream has not failed; findExtra does not return them,
\* and the reconciler neither warns about them nor hands them to
\* os.RemoveAll.
C31_DeclinedPathsAreSeen ==
    /\ sres # "err" => skipped \subseteq seen
    /\ skipped \cap extra = {}
    /\ skipped \cap flagged = {}

\* A clean pull has ended successfully after the user declined to overwrite
\* a local file: the file is still there with its local content, and
\* another local file was removed as extra.
C31_Witness ==
    /\ clean
    /\ ppc = "done"
    /\ pres = "nil"
    /\ \E q \in skipped \cap local : q \in DOMAIN disk /\ disk[q] = "local"
    /\ reaped # {}

\* ----------------------------------------- planner: properties, continued
\* A Next call made while HasNext is true has succeeded.
LoopNextSucceeded == HasNext /\ Len(emitted') = Len(emitted) + 1

\* C32: every successful Next called while HasNext is true advances one
\* cursor by at least one file and leaves the other where it is, and the
\* number of requests returned while HasNext was true never exceeds the
\* number of input files, so the loop `for HasNext { Next }` ends within
\* that many iterations.
C32_LoopAdvancesAndEnds ==
    /\ [][LoopNextSucceeded =>
            \/ i' >= i + 1 /\ j' = j
            \/ j' >= j + 1 /\ i' = i]_vars
    /\ [](Cardinality(LoopRequests) <= Cardinality(DOMAIN files))

\* The loop has ended with HasNext false after one iteration per file, for
\* three files or more.
C32_Witness ==
    /\ ~HasNext
    /\ lastErr = NoErr
    /\ Cardinality(DOMAIN files) >= 3
    /\ Cardinality(LoopRequests) = Cardinality(DOMAIN files)

\* The chunk of the request a successful Next has just returned.
LastChunk == emitted'[Len(emitted')].chunk

\* C33: no step changes the size estimates, the two name lists, the budget
\* or the file map; a successful Next moves one cursor forward by the number
\* of files of its chunk, taken from that cursor's list, and leaves the
\* other cursor alone; a failed Next leaves both cursors where they are.
C33_NextChangesOnlyOneCursor ==
    [][/\ sizes' = sizes
       /\ configFilenames' = configFilenames
       /\ dataFilenames' = dataFilenames
       /\ chunkSize' = chunkSize
       /\ files' = files
       /\ IF Len(emitted') = Len(emitted) + 1
          THEN \/ /\ i' = i + Cardinality(LastChunk)
                  /\ j' = j
                  /\ LastChunk = {configFilenames[k] : k \in i + 1..i'}
               \/ /\ j' = j + Cardinality(LastChunk)
                  /\ i' = i
                  /\ LastChunk = {dataFilenames[k] : k \in j + 1..j'}
          ELSE i' = i /\ j' = j /\ emitted' = emitted]_vars

\* Next has failed after it had returned a config request and a data
\* request.
C33_Witness ==
    /\ lastErr # NoErr
    /\ i > 0
    /\ j > 0
    /\ j < Len(dataFilenames)
    /\ Len(emitted) >= 2

\* The chunks the upload loop takes from a streamer st of NewStreamer whose
\* cursors are at ci and cj, in order: `for streamer.HasNext()` with Next
\* choosing the config list while ci is inside it; <<{}>> ends the plan
\* where nextChunk takes no file.
RECURSIVE PlanFrom(_, _, _)
PlanFrom(st, ci, cj) ==
    IF ci + cj >= Cardinality(DOMAIN st.files) THEN <<>>
    ELSE LET a    == IF ci < Len(st.configFilenames)
                     THEN st.configFilenames ELSE st.dataFilenames
             next == IF ci < Len(st.configFilenames) THEN ci ELSE cj
             n    == nextChunkLen(a, next, 0, 0)
         IN IF n = 0 THEN <<{}>>
            ELSE IF ci < Len(st.configFilenames)
            THEN <<nextChunk(a, next)>> \o PlanFrom(st, ci + n, cj)
            ELSE <<nextChunk(a, next)>> \o PlanFrom(st, ci, cj + n)

\* The chunks of the requests the loop of this run was given.
LoopChunks ==
    LET inLoop(e) == e.inLoop
        reqs == SelectSeq(emitted, inLoop)
    IN [k \in 1..Len(reqs) |-> reqs[k].chunk]

\* C34: when the loop of a run has ended without an error, every streamer
\* NewStreamer can return for the same two maps and the same budget plans
\* the same number of requests with the same files in each.
C34_PlanIsDeterministic ==
    (~HasNext /\ lastErr = NoErr) =>
        \A st \in NewStreamer(cfgIn, dataIn, chunkSize) : PlanFrom(st, 0, 0) = LoopChunks

\* ---------------------------------------- uploader: properties, continued
\* The files of the project in the folder webhooks/<name>/ of the definition
\* k, at any depth.
InFuncFolder(fs, k) == {c \in DOMAIN fs : HasDirPrefix(c, <<"webhooks", k.stem>>)}

\* C35: the files zipped for an inline webhook definition are .js and .json
\* files of its folder webhooks/<name>/ that have no node_modules segment,
\* and when DataFiles has returned without an error every inline definition
\* has such a file in its folder.
C35_BundleFromItsFolderOnly ==
    \A k \in inlineZips(proj) :
        /\ \A c \in filesToZip(proj, k) :
              /\ c \in InFuncFolder(proj, k)
              /\ c.ext \in {".js", ".json"}
              /\ "node_modules" \notin Range(c.dir)
        /\ fpc = "check" =>
              \E c \in InFuncFolder(proj, k) :
                  c.ext \in {".js", ".json"} /\ "node_modules" \notin Range(c.dir)

\* C36: when sendFilesToServerJSON has returned because Next failed, it has
\* returned the error, the writer is closed once, no Write is in progress,
\* and the reader was given "[" and the chunks Next had returned, each
\* followed by ",": nothing of the failing chunk and no "]".
C36_NextFailureWritesNothingMore ==
    exitPath = "next" =>
        /\ ferr = "err"
        /\ lastErr # NoErr
        /\ closeCount = 1
        /\ pending = None
        /\ received = IF emitted = <<>> THEN Framed(emitted)
                      ELSE Framed(emitted) \o <<Tok(",")>>

\* Next failed after one chunk or more had been written, and the reader has
\* seen end-of-stream behind them.
C36_Witness ==
    /\ exitPath = "next"
    /\ Len(emitted) >= 1
    /\ received[Len(received)] = Tok(",")
    /\ eofSeen

\* ----------------------------------------- pull: properties, continued
\* The destination WriteToDisk gives the entry e.
Target(e) == IF e.contentType = ZipType THEN [e.path EXCEPT !.ext = ""] ELSE e.path

\* The files written by this pass that the entry e does not replace.
WrittenBeside(e) ==
    {q \in DOMAIN disk : disk[q] = "server" /\ q # Target(e) /\ ~Under(q, Target(e))}

\* C37: a record is decoded only when the entries of the one before it are
\* all applied; the entries of a record are applied from the front, config
\* entries first, and an entry is passed only once its paths are in seen;
\* when an entry fails receiveStream returns, the rest of the record stays
\* unapplied, the files written before stay as they are and seen keeps its
\* members; after the error neither the disk nor seen changes.
C37_EntriesInOrderUntilFirstFailure ==
    [][/\ nrec' # nrec => cur = <<>> /\ nrec' = nrec + 1
       /\ cur # <<>> =>
             \/ /\ cur' = Tail(cur)
                /\ EntryPaths(Head(cur)) \subseteq seen'
                /\ sres' = sres
             \/ /\ cur' = cur
                /\ UNCHANGED <<disk, seen>> \/ sres' = "err"
       /\ cur # <<>> =>
             \A a \in 1..Len(cur), b \in 1..Len(cur) :
                (a < b /\ cur[a].kind = "data") => cur[b].kind = "data"
       /\ (sres # "err" /\ sres' = "err" /\ cur # <<>>) =>
             /\ seen \subseteq seen'
             /\ \A q \in WrittenBeside(Head(cur)) :
                   q \in DOMAIN disk' /\ disk'[q] = "server"
       /\ sres = "err" => UNCHANGED <<disk, seen, cur, nrec>>]_vars

\* The first entry of the second record failed: the entry behind it was not
\* applied, and a file written for the first record is still there.
C37_Witness ==
    /\ sres = "err"
    /\ ppc = "done"
    /\ nrec = 2
    /\ Len(cur) = 2
    /\ EntryPaths(cur[2]) # {}
    /\ EntryPaths(cur[2]) \cap (seen \cup DOMAIN disk) = {}
    /\ \E q \in seen : q \in DOMAIN disk /\ disk[q] = "server"

====
